---------------------------- MODULE Spec2Model ----------------------------
(*
  WebWatchNotify (src/WebWatchNotify.py): a watcher that scrapes a list of
  websites with a small step interpreter over a parsed HTML document, keeps
  the last extracted value per target in self.files and sends Telegram
  notifications.

  Strings are sequences of one-character strings, so that str.split("/"),
  str(None) and the serialisation of a tag are computed, not assumed.
*)
EXTENDS Integers, Sequences, FiniteSets, TLC

-----------------------------------------------------------------------------
(* Bounds of the model *)

\* number of scheduled runs of scrape_websites after which the model stops
\* taking new jobs
MaxRuns == 2

\* minutes of scheduler time the model follows
MaxTime == 2

-----------------------------------------------------------------------------
(* Strings *)

S(c) == <<c>>

RECURSIVE Concat(_)
Concat(ss) == IF ss = <<>> THEN <<>> ELSE Head(ss) \o Concat(Tail(ss))

\* str.split("/")[-1]: the part after the last "/", the whole string when
\* it holds none
RECURSIVE LastSegment(_)
LastSegment(s) ==
  IF s = <<>> THEN <<>>
  ELSE IF s[Len(s)] = "/" THEN <<>>
  ELSE LastSegment(SubSeq(s, 1, Len(s) - 1)) \o <<s[Len(s)]>>

\* str(None)
NoneStr == <<"N", "o", "n", "e">>

-----------------------------------------------------------------------------
(* Parsed documents: BeautifulSoup(req.content, "html.parser").
   A document is the sequence of its nodes in document order; node 1 is the
   BeautifulSoup object itself. *)

DocNode == [kind |-> "doc", name |-> "", parent |-> 0, attrs |-> <<>>, text |-> <<>>]
Tag(n, p, a) == [kind |-> "tag", name |-> n, parent |-> p, attrs |-> a, text |-> <<>>]
Text(p, t) == [kind |-> "text", name |-> "", parent |-> p, attrs |-> <<>>, text |-> t]

\* <a h="/1">D</a>
PageF1 == << DocNode, Tag("a", 1, << <<"h", <<"/", "1">> >> >>), Text(2, S("D")) >>
\* <a h="/d/2">D</a>
PageF2 == << DocNode, Tag("a", 1, << <<"h", <<"/", "d", "/", "2">> >> >>),
             Text(2, S("D")) >>
\* <a>D</a>
PageNoAttr == << DocNode, Tag("a", 1, <<>>), Text(2, S("D")) >>
\* <p>x</p>
PageNoText == << DocNode, Tag("p", 1, <<>>), Text(2, S("x")) >>
\* <p>x</p><a h="/1">D</a>
PageTwo == << DocNode, Tag("p", 1, <<>>), Text(2, S("x")),
              Tag("a", 1, << <<"h", <<"/", "1">> >> >>), Text(4, S("D")) >>

\* <p>x<a h="/1">D</a></p>
PageNested == << DocNode, Tag("p", 1, <<>>), Text(2, S("x")),
                 Tag("a", 2, << <<"h", <<"/", "1">> >> >>), Text(4, S("D")) >>

Pages == {PageF1, PageF2, PageNoAttr, PageNoText, PageTwo, PageNested}

\* the body of a non-success response (an error page)
ErrorPage == PageNoText

Children(d, id) == {j \in 1..Len(d) : d[j].parent = id}

RECURSIVE IsDescendant(_, _, _)
IsDescendant(d, j, id) ==
  /\ d[j].parent # 0
  /\ \/ d[j].parent = id
     \/ IsDescendant(d, d[j].parent, id)

Min(set) == CHOOSE x \in set : \A y \in set : x <= y

RECURSIVE SortedSeq(_)
SortedSeq(set) ==
  IF set = {} THEN <<>> ELSE <<Min(set)>> \o SortedSeq(set \ {Min(set)})

RECURSIVE AttrText(_)
AttrText(attrs) ==
  IF attrs = <<>> THEN <<>>
  ELSE <<" ", Head(attrs)[1], "=", "\"">> \o Head(attrs)[2] \o <<"\"">>
       \o AttrText(Tail(attrs))

\* str(element) of a Tag, a NavigableString or the BeautifulSoup object
RECURSIVE Serialize(_, _)
Serialize(d, id) ==
  LET inner == Concat([k \in 1..Cardinality(Children(d, id)) |->
                         Serialize(d, SortedSeq(Children(d, id))[k])])
  IN  IF d[id].kind = "text" THEN d[id].text
      ELSE IF d[id].kind = "doc" THEN inner
      ELSE <<"<", d[id].name>> \o AttrText(d[id].attrs) \o <<">">>
           \o inner \o <<"<", "/", d[id].name, ">">>

-----------------------------------------------------------------------------
(* Values a pipeline carries: a node of the document, None, or a str *)

Node(id) == [k |-> "node", id |-> id, s |-> <<>>]
None == [k |-> "none", id |-> 0, s |-> <<>>]
StrVal(s) == [k |-> "str", id |-> 0, s |-> s]
Raise(exc) == [k |-> "raise", id |-> 0, s |-> exc]

\* a variant that always searches from the document root
FindString_WholeDocument(d, id, text) ==
  LET hits == {j \in 1..Len(d) : d[j].kind = "text" /\ d[j].text = text}
  IN  IF hits = {} THEN None ELSE Node(Min(hits))

\* element.find(string=text) on a Tag: the first string below the element,
\* in document order, that equals text
FindString(d, id, text) ==
  LET hits == {j \in 1..Len(d) : /\ d[j].kind = "text"
                                 /\ d[j].text = text
                                 /\ IsDescendant(d, j, id)}
  IN  IF hits = {} THEN None ELSE Node(Min(hits))

\* element.find_parent()
FindParent(d, id) ==
  IF d[id].parent = 0 THEN None ELSE Node(d[id].parent)

\* element.find_next_sibling(): the next sibling that is a Tag
FindNextSibling(d, id) ==
  LET sibs == {j \in 1..Len(d) : /\ j > id
                                 /\ d[j].parent = d[id].parent
                                 /\ d[id].parent # 0
                                 /\ d[j].kind = "tag"}
  IN  IF sibs = {} THEN None ELSE Node(Min(sibs))

\* element.get(name) on a Tag
RECURSIVE AttrGet(_, _)
AttrGet(attrs, name) ==
  IF attrs = <<>> THEN None
  ELSE IF Head(attrs)[1] = name THEN StrVal(Head(attrs)[2])
  ELSE AttrGet(Tail(attrs), name)


-----------------------------------------------------------------------------
(* Step Interpreter: WebsiteFileWatcher._perform_step *)

Step(m, text, name) == [method |-> m, text |-> text, name |-> name]

Methods == {"find_text", "parent", "find_next_sibling", "get_attribute"}

\* Building step_methods evaluates element.find_parent and
\* element.find_next_sibling before the method is looked up: None and str
\* have neither. A NavigableString is a str, so its find is str.find (no
\* keyword arguments) and it has no get.
PerformStep(d, el, step) ==
  IF el.k # "node" THEN Raise("AttributeError")
  ELSE IF step.method = "find_text" THEN
         IF d[el.id].kind = "text" THEN Raise("TypeError")
         ELSE FindString(d, el.id, step.text)
  ELSE IF step.method = "parent" THEN FindParent(d, el.id)
  ELSE IF step.method = "find_next_sibling" THEN FindNextSibling(d, el.id)
  ELSE IF step.method = "get_attribute" THEN
         IF d[el.id].kind = "text" THEN Raise("AttributeError")
         ELSE AttrGet(d[el.id].attrs, step.name)
  ELSE Raise("ValueError")

\* str(soup)
Str(d, el) ==
  IF el.k = "node" THEN Serialize(d, el.id)
  ELSE IF el.k = "none" THEN NoneStr
  ELSE el.s

\* for step in config.steps: soup = self._perform_step(soup, step)
\* applied counts the calls of _perform_step that were made
RECURSIVE RunSteps(_, _, _, _)
RunSteps(d, el, steps, applied) ==
  IF steps = <<>> THEN [val |-> el, applied |-> applied]
  ELSE LET r == PerformStep(d, el, Head(steps))
       IN  IF r.k = "raise" THEN [val |-> r, applied |-> applied + 1]
           ELSE RunSteps(d, r, Tail(steps), applied + 1)

\* requests.get(config.website, timeout=10): a response (any status code,
\* with a body) or an exception

Response(status, body) == [k |-> "response", status |-> status, body |-> body]
RequestError == [k |-> "error", status |-> 0, body |-> <<>>]

FetchResults ==
  {Response(200, p) : p \in Pages} \cup {Response(404, ErrorPage), RequestError}

\* WebsiteFileWatcher._scrape_website_for_file_url: the status code of the
\* response is not looked at
ScrapeWebsiteForFileUrl(config, resp) ==
  IF resp.k = "error"
  THEN [k |-> "raise", s |-> <<>>, exc |-> "RequestException", applied |-> 0]
  ELSE LET r == RunSteps(resp.body, Node(1), config.steps, 0)
       IN  IF r.val.k = "raise"
           THEN [k |-> "raise", s |-> <<>>, exc |-> r.val.s, applied |-> r.applied]
           ELSE [k |-> "ok", s |-> Str(resp.body, r.val), exc |-> "",
                 applied |-> r.applied]

-----------------------------------------------------------------------------
(* Configurations: WebsiteFileWatcher._load_configs *)

Config(name, steps, interval) ==
  [name |-> name, steps |-> steps, schedule_interval |-> interval]

\* find "D", go to its parent, read h
StepsHref ==
  << Step("find_text", S("D"), ""), Step("parent", <<>>, ""),
     Step("get_attribute", <<>>, "h") >>
\* a method outside the closed set, applied to what find_text returned
StepsBogus ==
  << Step("find_text", S("D"), ""), Step("click", <<>>, "") >>
\* find "x", go to its parent, search "D" again, go to its parent, read h
StepsReanchor ==
  << Step("find_text", S("x"), ""), Step("parent", <<>>, ""),
     Step("find_text", S("D"), ""), Step("parent", <<>>, ""),
     Step("get_attribute", <<>>, "h") >>
\* find "x", go to its parent, take the next sibling tag, read h
StepsSibling ==
  << Step("find_text", S("x"), ""), Step("parent", <<>>, ""),
     Step("find_next_sibling", <<>>, ""), Step("get_attribute", <<>>, "h") >>

\* the configuration lists a run may be started with: two targets with
\* unique names, each with its own steps and interval (in minutes)
ConfigLists ==
  { << Config("t1", StepsHref, 1), Config("t2", StepsHref, 2) >>,
    << Config("t1", StepsHref, 1), Config("t2", StepsBogus, 1) >>,
    << Config("t1", StepsBogus, 2), Config("t2", StepsHref, 1) >>,
    << Config("t1", StepsReanchor, 1), Config("t2", StepsHref, 1) >>,
    << Config("t1", StepsSibling, 2), Config("t2", StepsReanchor, 2) >> }

-----------------------------------------------------------------------------
(* Telegram: _send_file_to_telegram and read_last_message_from_telegram *)

\* what requests.get(url, timeout=10) of sendDocument can do: answer 200,
\* answer another status, or raise
SendResults == {"ok", "rejected", "error"}

\* WebsiteFileWatcher._send_file_to_telegram: the document sent is the value
\* self.files holds for the target when the call is made
SendFileToTelegram(fs, c, by, out) ==
  [target |-> c.name, document |-> fs[c.name], by |-> by, status |-> out]

\* one entry of getUpdates' result list; text and file_name are None when
\* the key is absent
Update(post, text, doc, fname) ==
  [channel_post |-> post, text |-> text, document |-> doc, file_name |-> fname]

UText1 == Update(TRUE, StrVal(S("1")), FALSE, None)
UDoc1 == Update(TRUE, None, TRUE, StrVal(S("1")))
UDoc2 == Update(TRUE, None, TRUE, StrVal(S("2")))
UBoth == Update(TRUE, StrVal(S("2")), TRUE, StrVal(S("1")))
UDocNoName == Update(TRUE, None, TRUE, None)
UOther == Update(FALSE, None, FALSE, None)
UEmptyText == Update(TRUE, StrVal(<<>>), TRUE, StrVal(S("1")))

ResultLists ==
  { <<>>, <<UText1>>, <<UDoc1>>, <<UDoc2>>, <<UBoth>>, <<UDocNoName>>,
    <<UOther>>, <<UEmptyText>>, <<UDoc1, UDoc2>>, <<UDoc2, UDoc1>> }

ReadResults ==
  {Response(200, r) : r \in ResultLists} \cup {Response(401, <<>>), RequestError}

\* a variant that prefers the document's file name to the text
PostText_PreferFileName(u) ==
  IF u.channel_post /\ u.document /\ u.file_name.k = "str" THEN u.file_name.s
  ELSE IF u.channel_post /\ u.text.k = "str" THEN u.text.s
  ELSE <<>>

\* last_channel_post.get("text") or
\*   last_channel_post.get("document", {}).get("file_name", "")
PostText(u) ==
  IF u.channel_post /\ u.text.k = "str" /\ u.text.s # <<>> THEN u.text.s
  ELSE IF u.channel_post /\ u.document /\ u.file_name.k = "str" THEN u.file_name.s
  ELSE <<>>

\* WebsiteFileWatcher.read_last_message_from_telegram
ReadLastMessageFromTelegram(c, resp) ==
  IF resp.k = "error" THEN [k |-> "raise", s |-> <<>>]
  ELSE IF resp.status # 200 THEN [k |-> "ok", s |-> <<>>]
  ELSE IF resp.body = <<>> THEN [k |-> "ok", s |-> <<>>]
  ELSE [k |-> "ok", s |-> PostText(resp.body[Len(resp.body)])]

\* how the read of the last message ended, for the record of a reconcile
ReadKind(resp) ==
  IF resp.k = "error" THEN "error"
  ELSE IF resp.status # 200 THEN "rejected"
  ELSE IF resp.body = <<>> THEN "empty"
  ELSE "message"

-----------------------------------------------------------------------------
(* Change Detector: WebsiteFileWatcher._check_and_update_files *)

\* a variant that rebuilds the cache with the one entry it writes
Put_Clobber(fs, name, value) == [n \in {name} |-> value]

\* self.files[config.name] = element
Put(fs, name, value) ==
  [n \in DOMAIN fs \cup {name} |-> IF n = name THEN value ELSE fs[n]]

\* a variant that assigns self.files[config.name] before it asks whether the
\* name is in self.files: the first observation is notified too
CheckAndUpdateFiles_AssignFirst(fs, c, element, out) ==
  IF c.name \notin DOMAIN fs \/ fs[c.name] # element
  THEN LET sends == <<SendFileToTelegram(Put(fs, c.name, element), c, "detector", out)>>
       IN  [files |-> Put(fs, c.name, element), sends |-> sends,
            raised |-> out = "error"]
  ELSE [files |-> fs, sends |-> <<>>, raised |-> FALSE]

\* a variant without the comparison: every scrape of a known target is
\* taken for a change
CheckAndUpdateFiles_NoCompare(fs, c, element, out) ==
  LET sends == IF c.name \in DOMAIN fs
               THEN <<SendFileToTelegram(fs, c, "detector", out)>>
               ELSE <<>>
  IN  IF sends # <<>> /\ out = "error"
      THEN [files |-> fs, sends |-> sends, raised |-> TRUE]
      ELSE [files |-> Put(fs, c.name, element), sends |-> sends,
            raised |-> FALSE]

\* a variant that stores a value only for a name that is already cached
CheckAndUpdateFiles_NoFirstStore(fs, c, element, out) ==
  IF c.name \in DOMAIN fs /\ fs[c.name] # element
  THEN LET sends == <<SendFileToTelegram(fs, c, "detector", out)>>
       IN  IF out = "error"
           THEN [files |-> fs, sends |-> sends, raised |-> TRUE]
           ELSE [files |-> Put(fs, c.name, element), sends |-> sends,
                 raised |-> FALSE]
  ELSE [files |-> fs, sends |-> <<>>, raised |-> FALSE]

\* the send comes before the assignment to self.files; an exception of the
\* send leaves self.files as it was
CheckAndUpdateFiles(fs, c, element, out) ==
  IF c.name \notin DOMAIN fs \/ fs[c.name] # element
  THEN LET sends == IF c.name \in DOMAIN fs
                    THEN <<SendFileToTelegram(fs, c, "detector", out)>>
                    ELSE <<>>
       IN  IF sends # <<>> /\ out = "error"
           THEN [files |-> fs, sends |-> sends, raised |-> TRUE]
           ELSE [files |-> Put(fs, c.name, element), sends |-> sends,
                 raised |-> FALSE]
  ELSE [files |-> fs, sends |-> <<>>, raised |-> FALSE]

(* Restart Reconciler: one iteration of check_for_file_changes *)

\* a variant that compares the whole cached value, without the split
FileName_NoSplit(fs, c) == fs[c.name]

\* file_name = self.files[config.name].split("/")[-1]
FileName(fs, c) == LastSegment(fs[c.name])

CheckForFileChanges(fs, c, last_msg, out) ==
  LET sends == IF last_msg # FileName(fs, c)
               THEN <<SendFileToTelegram(fs, c, "reconciler", out)>>
               ELSE <<>>
  IN  [sends |-> sends, raised |-> sends # <<>> /\ out = "error"]

-----------------------------------------------------------------------------
(* The process: main, scrape_websites, check_for_file_changes, run_schedule *)

VARIABLES
  pc,         \* where main is: "start", "scrape", "reconcile", "schedule",
              \* "job", "exited" or "crashed"
  check_once, \* args.check_once
  config,     \* self.config
  files,      \* self.files: name -> last extracted value
  idx,        \* position of the running loop in self.config
  now,        \* scheduler time, in minutes
  next_run,   \* per registered job, the minute it is due
  job,        \* the job run_pending is running (0: none)
  runs,       \* scheduled runs of scrape_websites so far
  exc,        \* the uncaught exception that ended the process ("" if none)
  sent,       \* the sendDocument requests made since the running scrape
              \* pass began, in order
  obs,        \* per position, what the running scrape pass did there: the
              \* response fetched, the cache entry before (old), the value
              \* extracted (got), the steps applied, the exception raised,
              \* and whether the iteration ran to its end (done)
  prev,       \* per position, the value the scrape pass before extracted
  rec,        \* per position, what check_for_file_changes did there (kept
              \* until the first scheduled run starts)
  passes      \* how many times scrape_websites and check_for_file_changes
              \* have returned

vars == <<pc, check_once, config, files, idx, now, next_run, job, runs, exc,
          sent, obs, prev, rec, passes>>

NoObs == [k |-> "none", resp |-> [k |-> "none", status |-> 0, body |-> <<>>],
          old |-> None, got |-> <<>>, applied |-> 0, exc |-> "",
          done |-> FALSE, pass |-> 0]
NoRec == [k |-> "none", resp |-> [k |-> "none", status |-> 0, body |-> <<>>],
          read |-> "", last_msg |-> <<>>, file_name |-> <<>>]

Positions == 1..2

Init ==
  /\ pc = "start"
  /\ check_once = FALSE
  /\ config = <<>>
  /\ files = <<>>
  /\ idx = 1
  /\ now = 0
  /\ next_run = <<>>
  /\ job = 0
  /\ runs = 0
  /\ exc = ""
  /\ sent = <<>>
  /\ obs = [i \in Positions |-> NoObs]
  /\ prev = [i \in Positions |-> None]
  /\ rec = [i \in Positions |-> NoRec]
  /\ passes = [scrape |-> 0, reconcile |-> 0]

\* a variant of _load_configs that reports the error and goes on with the
\* configurations it could read, without sys.exit
LoadConfigs_NoExit ==
  /\ pc = "start"
  /\ pc' = "scrape"
  /\ config' \in ConfigLists
  /\ check_once' \in BOOLEAN
  /\ exc' \in {"", "SystemExit"}
  /\ UNCHANGED <<files, idx, now, next_run, job, runs, sent, obs, prev, rec,
                 passes>>

\* main: parse_arguments and WebsiteFileWatcher(args.json_config); a
\* configuration file that cannot be loaded ends the process (sys.exit)
LoadConfigs ==
  /\ pc = "start"
  /\ \/ /\ pc' = "exited"
        /\ exc' = "SystemExit"
        /\ UNCHANGED <<config, check_once>>
     \/ /\ pc' = "scrape"
        /\ config' \in ConfigLists
        /\ check_once' \in BOOLEAN
        /\ exc' = ""
  /\ UNCHANGED <<files, idx, now, next_run, job, runs, sent, obs, prev, rec,
                 passes>>

\* one iteration of the loop of scrape_websites: scrape the target, then
\* check and update self.files. Any exception leaves the loop and, nothing
\* catching it, the process.
ScrapeTarget ==
  /\ pc \in {"scrape", "job"}
  /\ idx <= Len(config)
  /\ \E resp \in FetchResults, out \in SendResults :
       LET c == config[idx]
           r == ScrapeWebsiteForFileUrl(c, resp)
           u == CheckAndUpdateFiles(files, c, r.s, out)
           old == IF c.name \in DOMAIN files THEN StrVal(files[c.name]) ELSE None
       IN  /\ (r.k = "raise" \/ u.sends = <<>>) => out = "ok"
           /\ obs' = [obs EXCEPT ![idx] =
                        [k |-> r.k, resp |-> resp, old |-> old, got |-> r.s,
                         applied |-> r.applied, exc |-> r.exc,
                         done |-> r.k = "ok" /\ ~u.raised, pass |-> runs]]
           /\ IF r.k = "raise"
              THEN /\ pc' = "crashed"
                   /\ exc' = r.exc
                   /\ UNCHANGED <<files, sent, idx>>
              ELSE /\ sent' = sent \o u.sends
                   /\ IF u.raised
                      THEN /\ pc' = "crashed"
                           /\ exc' = "RequestException"
                           /\ UNCHANGED <<files, idx>>
                      ELSE /\ files' = u.files
                           /\ idx' = idx + 1
                           /\ UNCHANGED <<pc, exc>>
  /\ UNCHANGED <<check_once, config, now, next_run, job, runs, prev, rec,
                 passes>>

\* scrape_websites returns: to main (which goes on to
\* check_for_file_changes), or to the scheduler, which sets the job's next
\* run
ScrapeDone ==
  /\ pc \in {"scrape", "job"}
  /\ idx > Len(config)
  /\ idx' = 1
  /\ IF pc = "scrape"
     THEN /\ pc' = "reconcile"
          /\ UNCHANGED <<next_run, job>>
     ELSE /\ pc' = "schedule"
          /\ next_run' = [next_run EXCEPT ![job] = now + config[job].schedule_interval]
          /\ job' = 0
  /\ passes' = [passes EXCEPT !.scrape = @ + 1]
  /\ UNCHANGED <<check_once, config, files, now, runs, exc, sent, obs, prev, rec>>

\* one iteration of the loop of check_for_file_changes
ReconcileTarget ==
  /\ pc = "reconcile"
  /\ idx <= Len(config)
  /\ \E resp \in ReadResults, out \in SendResults :
       LET c == config[idx]
           m == ReadLastMessageFromTelegram(c, resp)
       IN  IF m.k = "raise" \/ c.name \notin DOMAIN files
           THEN /\ out = "ok"
                /\ pc' = "crashed"
                /\ exc' = IF m.k = "raise" THEN "RequestException" ELSE "KeyError"
                /\ rec' = [rec EXCEPT ![idx] =
                             [k |-> "raise", resp |-> resp,
                              read |-> ReadKind(resp),
                              last_msg |-> <<>>, file_name |-> <<>>]]
                /\ UNCHANGED <<sent, idx>>
           ELSE LET u == CheckForFileChanges(files, c, m.s, out)
                IN  /\ u.sends = <<>> => out = "ok"
                    /\ sent' = sent \o u.sends
                    /\ rec' = [rec EXCEPT ![idx] =
                                 [k |-> IF u.raised THEN "raise" ELSE "ok",
                                  resp |-> resp,
                                  read |-> ReadKind(resp), last_msg |-> m.s,
                                  file_name |-> FileName(files, c)]]
                    /\ IF u.raised
                       THEN /\ pc' = "crashed"
                            /\ exc' = "RequestException"
                            /\ UNCHANGED idx
                       ELSE /\ idx' = idx + 1
                            /\ UNCHANGED <<pc, exc>>
  /\ UNCHANGED <<check_once, config, files, now, next_run, job, runs, obs, prev,
                 passes>>

\* a variant of main that starts the scheduler whatever args.check_once is
ReconcileDone_IgnoreCheckOnce ==
  /\ pc = "reconcile"
  /\ idx > Len(config)
  /\ idx' = 1
  /\ pc' = "schedule"
  /\ next_run' = [j \in 1..Len(config) |-> now + config[j].schedule_interval]
  /\ passes' = [passes EXCEPT !.reconcile = @ + 1]
  /\ UNCHANGED <<check_once, config, files, now, job, runs, exc, sent, obs, prev, rec>>

\* check_for_file_changes returns to main: with check_once the process
\* ends, otherwise run_schedule registers one job per configuration, each
\* running scrape_websites every int(config.schedule_interval) minutes
ReconcileDone ==
  /\ pc = "reconcile"
  /\ idx > Len(config)
  /\ idx' = 1
  /\ IF check_once
     THEN /\ pc' = "exited"
          /\ UNCHANGED next_run
     ELSE /\ pc' = "schedule"
          /\ next_run' = [j \in 1..Len(config) |-> now + config[j].schedule_interval]
  /\ passes' = [passes EXCEPT !.reconcile = @ + 1]
  /\ UNCHANGED <<check_once, config, files, now, job, runs, exc, sent, obs, prev, rec>>

\* schedule.run_pending: the jobs that are due, sorted by their next run
Due == {j \in 1..Len(next_run) : next_run[j] <= now}

FirstDue ==
  CHOOSE j \in Due : \A k \in Due :
    next_run[j] < next_run[k] \/ (next_run[j] = next_run[k] /\ j <= k)

\* run_pending starts the next due job: a whole run of scrape_websites
RunPending ==
  /\ pc = "schedule"
  /\ Due # {}
  /\ runs < MaxRuns
  /\ pc' = "job"
  /\ job' = FirstDue
  /\ runs' = runs + 1
  /\ idx' = 1
  /\ sent' = <<>>
  /\ prev' = [i \in Positions |-> IF obs[i].k = "ok" THEN StrVal(obs[i].got) ELSE None]
  /\ obs' = [i \in Positions |-> NoObs]
  /\ rec' = [i \in Positions |-> NoRec]
  /\ UNCHANGED <<check_once, config, files, now, next_run, exc, passes>>

\* nothing is due: the loop sleeps and time passes
Sleep ==
  /\ pc = "schedule"
  /\ Due = {}
  /\ now < MaxTime
  /\ now' = now + 1
  /\ UNCHANGED <<pc, check_once, config, files, idx, next_run, job, runs, exc,
                 sent, obs, prev, rec, passes>>

\* KeyboardInterrupt inside run_schedule's try
Interrupt ==
  /\ pc \in {"schedule", "job"}
  /\ pc' = "exited"
  /\ exc' = "KeyboardInterrupt"
  /\ UNCHANGED <<check_once, config, files, idx, now, next_run, job, runs,
                 sent, obs, prev, rec, passes>>

Next ==
  \/ LoadConfigs
  \/ ScrapeTarget
  \/ ScrapeDone
  \/ ReconcileTarget
  \/ ReconcileDone
  \/ RunPending
  \/ Sleep
  \/ Interrupt

Spec == Init /\ [][Next]_vars

-----------------------------------------------------------------------------
(* Properties *)

\* the sendDocument requests of the running pass for one target, by the
\* change detector ("detector") or by check_for_file_changes ("reconciler")
SentFor(name, by) == SelectSeq(sent, LAMBDA n : n.target = name /\ n.by = by)

\* C1: when a scrape pass extracts for a target a value B that differs from
\* the cached value A, the change detector dispatches exactly one
\* notification for the target in that pass, the document it carries is B,
\* and the target's cache entry is B afterwards.
C1_ChangeSendsNewValue ==
  \A i \in 1..Len(config) :
    (obs[i].done /\ obs[i].old.k = "str" /\ obs[i].old.s # obs[i].got) =>
      LET n == SentFor(config[i].name, "detector")
      IN  /\ Len(n) = 1
          /\ n[1].document = obs[i].got
          /\ files[config[i].name] = obs[i].got

\* C2 as stated: in a run of main (scrape_websites, check_for_file_changes,
\* then the scheduler) no notification at all is dispatched for a target on
\* account of its first successful extraction.
C2_NoNotificationAfterFirstExtraction ==
  \A i \in 1..Len(config) :
    (obs[i].done /\ obs[i].old.k = "none") =>
      \A k \in 1..Len(sent) : sent[k].target # config[i].name

\* C2, amended: the first successful extraction of a target only stores the
\* value, and the change detector dispatches nothing for it; the only
\* notification the target can get in that pass is the one of
\* check_for_file_changes, sent exactly when the last message read differs
\* from the file name of the stored value, and carrying that value.
C2_DetectorSilentOnFirstExtraction ==
  \A i \in 1..Len(config) :
    (obs[i].k = "ok" /\ obs[i].old.k = "none") =>
      LET name == config[i].name
          n == SentFor(name, "reconciler")
      IN  /\ obs[i].done
          /\ SentFor(name, "detector") = <<>>
          /\ name \in DOMAIN files
          /\ files[name] = obs[i].got
          /\ Len(n) <= 1
          /\ Len(n) = 1 <=> /\ rec[i].k # "none"
                            /\ rec[i].read # "error"
                            /\ rec[i].last_msg # LastSegment(obs[i].got)
          /\ Len(n) = 1 => n[1].document = obs[i].got

\* a first extraction that check_for_file_changes then notified
C2_Witness ==
  \E i \in 1..Len(config) :
    /\ obs[i].k = "ok"
    /\ obs[i].old.k = "none"
    /\ Len(SentFor(config[i].name, "reconciler")) = 1

\* C3: when a scrape pass extracts for a target the value the pass before
\* extracted, the change detector dispatches no notification for it and the
\* cache entry stays that value.
C3_UnchangedValueIsSilent ==
  \A i \in 1..Len(config) :
    (obs[i].k = "ok" /\ prev[i] = StrVal(obs[i].got)) =>
      /\ obs[i].done
      /\ SentFor(config[i].name, "detector") = <<>>
      /\ files[config[i].name] = obs[i].got

\* a second scheduled pass that extracted the value of the pass before
C3_Witness ==
  \E i \in 1..Len(config) :
    /\ obs[i].k = "ok"
    /\ prev[i] = StrVal(obs[i].got)
    /\ obs[i].pass >= 2

\* C4: in a fresh process, check_for_file_changes compares the part of the
\* cached value after its last "/" with the latest channel message: equal,
\* it dispatches nothing for the target; different, exactly one notification.
C4_ReconcileComparesFileName ==
  \A i \in 1..Len(config) :
    (rec[i].k # "none" /\ rec[i].read = "message") =>
      LET name == config[i].name
          n == SentFor(name, "reconciler")
      IN  IF rec[i].last_msg = LastSegment(files[name])
          THEN n = <<>>
          ELSE Len(n) = 1 /\ n[1].document = files[name]

\* one reconcile pass with both cases: the first target's file name is the
\* latest message (nothing sent), the second target's is not (one sent)
C4_Witness ==
  /\ Len(config) = 2
  /\ rec[1].read = "message"
  /\ rec[1].last_msg = LastSegment(files[config[1].name])
  /\ SentFor(config[1].name, "reconciler") = <<>>
  /\ rec[2].read = "message"
  /\ rec[2].last_msg # LastSegment(files[config[2].name])
  /\ Len(SentFor(config[2].name, "reconciler")) = 1

\* C5: when the last message cannot be read (a non-success response) or the
\* channel has no messages, check_for_file_changes dispatches nothing for
\* the target.
C5_NoAcknowledgmentNoAction ==
  \A i \in 1..Len(config) :
    (rec[i].k # "none" /\ rec[i].read \in {"rejected", "empty"}) =>
      SentFor(config[i].name, "reconciler") = <<>>

\* the running scrape pass is over: it returned or an exception ended it
PassOver == pc \in {"crashed", "reconcile", "schedule"}

\* the cache entry of position i is what it was before the pass scraped it
CacheUntouched(i) ==
  IF obs[i].old.k = "none"
  THEN config[i].name \notin DOMAIN files
  ELSE /\ config[i].name \in DOMAIN files
       /\ files[config[i].name] = obs[i].old.s

\* fetching, extraction or notification failed for position i in this pass
FailedAt(i) ==
  /\ obs[i].k # "none"
  /\ \/ obs[i].k = "raise"
     \/ ~obs[i].done
     \/ obs[i].resp.status # 200
     \/ \E k \in 1..Len(sent) :
          sent[k].target = config[i].name /\ sent[k].status # "ok"

\* C6: when fetching, extraction or notification fails for one target of a
\* scrape pass, every target later in the configuration list is still
\* scraped in that pass.
C6_FailureIsolation ==
  \A i \in 1..Len(config) : \A j \in 1..Len(config) :
    (i < j /\ FailedAt(i) /\ PassOver) => obs[j].k # "none"

\* C7: a scheduled scrape pass in which a target fails does not end the
\* scheduler loop: the process is never ended by an exception of a job.
C7_SchedulerSurvivesFailures ==
  ~(pc = "crashed" /\ job # 0)

HasInvalidStep(c) ==
  \E k \in 1..Len(c.steps) : c.steps[k].method \notin Methods

\* C8: every scrape of a target whose steps hold a method outside the closed
\* set fails with the invalid-method failure (ValueError), whatever node the
\* step is applied to, dispatches no notification and leaves the target's
\* cache entry as it was.
C8_InvalidMethodDeterminism ==
  \A i \in 1..Len(config) :
    (HasInvalidStep(config[i]) /\ obs[i].resp.k = "response"
       /\ obs[i].resp.status = 200) =>
      /\ obs[i].k = "raise"
      /\ obs[i].exc = "ValueError"
      /\ SentFor(config[i].name, "detector") = <<>>
      /\ CacheUntouched(i)

\* the first step of position i is a find_text that found nothing in the
\* fetched document, and another step follows it
NullTraversal(i) ==
  /\ obs[i].resp.k = "response"
  /\ obs[i].resp.status = 200
  /\ Len(config[i].steps) >= 2
  /\ config[i].steps[1].method = "find_text"
  /\ FindString(obs[i].resp.body, 1, config[i].steps[1].text) = None

\* C9: when find_text finds nothing and a step follows it, the pipeline
\* fails at that step and evaluates none after it, nothing is dispatched,
\* the target's cache entry is not changed, and the other targets of the
\* pass are scraped all the same.
C9_NullTraversalAbort ==
  \A i \in 1..Len(config) :
    NullTraversal(i) =>
      /\ obs[i].k = "raise"
      /\ obs[i].applied = 2
      /\ SentFor(config[i].name, "detector") = <<>>
      /\ CacheUntouched(i)
      /\ PassOver => \A j \in 1..Len(config) : obs[j].k # "none"

\* the last step of position i is a get_attribute that was applied to a tag
\* without that attribute
AttributeAbsent(i) ==
  LET steps == config[i].steps
      n == Len(steps)
      d == obs[i].resp.body
  IN  /\ obs[i].resp.k = "response"
      /\ n >= 1
      /\ steps[n].method = "get_attribute"
      /\ LET before == RunSteps(d, Node(1), SubSeq(steps, 1, n - 1), 0).val
         IN  /\ before.k = "node"
             /\ d[before.id].kind # "text"
             /\ AttrGet(d[before.id].attrs, steps[n].name) = None

\* C10: when the last step is a get_attribute of an attribute the current
\* node does not have, the step does not fail and the extraction result,
\* the value compared with and stored in the cache, is the empty string.
C10_AbsentAttributeIsEmpty ==
  \A i \in 1..Len(config) :
    AttributeAbsent(i) => obs[i].k = "ok" /\ obs[i].got = <<>>

\* C11: when a change from A to B is detected and the send fails in any way
\* (a non-success response, or a timeout or network error), the send is made
\* once and the target's cache entry is B all the same.
C11_FailedSendKeepsChange ==
  \A i \in 1..Len(config) :
    (/\ obs[i].k = "ok"
     /\ obs[i].old.k = "str"
     /\ obs[i].old.s # obs[i].got
     /\ \E k \in 1..Len(sent) : /\ sent[k].target = config[i].name
                                /\ sent[k].by = "detector"
                                /\ sent[k].status # "ok") =>
      /\ Len(SentFor(config[i].name, "detector")) = 1
      /\ files[config[i].name] = obs[i].got

\* C12: when the fetch of a target's page yields a non-success response or
\* raises, no step of the target's pipeline is applied in that pass, the
\* cache entry is left as it was and nothing is dispatched for the target.
C12_FetchFailureSkipsTarget ==
  \A i \in 1..Len(config) :
    (obs[i].k # "none" /\ obs[i].resp.status # 200) =>
      /\ obs[i].applied = 0
      /\ CacheUntouched(i)
      /\ SentFor(config[i].name, "detector") = <<>>

\* C13: in the scheduler loop the pipeline of a target runs only at the
\* multiples of the target's own interval: a job that is due does not run
\* the pipeline of a target whose interval has not elapsed.
C13_PerTargetSchedule ==
  \A i \in 1..Len(config) :
    (job # 0 /\ obs[i].k # "none") => now % config[i].schedule_interval = 0

C15_ConfigErrorEndsProcess ==
  exc = "SystemExit" =>
    /\ pc = "exited"
    /\ config = <<>>
    /\ files = <<>>
    /\ sent = <<>>
    /\ \A i \in Positions : obs[i].k = "none" /\ rec[i].k = "none"
    /\ next_run = <<>>
    /\ runs = 0
    /\ passes = [scrape |-> 0, reconcile |-> 0]

\* the process after sys.exit in _load_configs
C15_Witness ==
  pc = "exited" /\ exc = "SystemExit"

\* what the pipeline of position i carries after its first k steps
StateAfter(i, k) ==
  RunSteps(obs[i].resp.body, Node(1), SubSeq(config[i].steps, 1, k), 0).val

\* step k of position i is a find_text that the pipeline reached
FindTextReached(i, k) ==
  /\ obs[i].resp.k = "response"
  /\ config[i].steps[k].method = "find_text"
  /\ StateAfter(i, k - 1).k # "raise"

\* the strings of document d that equal text, below node id
StringsBelow(d, id, text) ==
  {j \in 1..Len(d) : d[j].kind = "text" /\ d[j].text = text /\ IsDescendant(d, j, id)}

LatestEntry(i) == rec[i].resp.body[Len(rec[i].resp.body)]

\* the file name of the document attached to channel post u, "" without one
AttachedFileName(u) ==
  IF u.channel_post /\ u.document /\ u.file_name.k = "str" THEN u.file_name.s
  ELSE <<>>

\* C17 as stated: from the latest entry, the read returns the text field
\* when a text field is present, otherwise the attached document's file
\* name, and the empty string when the entry has neither.
C17_ReadLastPrefersPresentText ==
  \A i \in 1..Len(config) :
    rec[i].read = "message" =>
      LET u == LatestEntry(i)
      IN  rec[i].last_msg = IF u.channel_post /\ u.text.k = "str" THEN u.text.s
                            ELSE AttachedFileName(u)

\* C17, amended: from the latest entry, the read returns the text field
\* when it is present and not empty, otherwise the attached document's file
\* name, and the empty string when the entry has neither; a text that is
\* not empty wins over a file name.
C17_ReadLastPrefersNonEmptyText ==
  \A i \in 1..Len(config) :
    rec[i].read = "message" =>
      LET u == LatestEntry(i)
      IN  /\ (u.channel_post /\ u.text.k = "str" /\ u.text.s # <<>>) =>
               rec[i].last_msg = u.text.s
          /\ ~(u.channel_post /\ u.text.k = "str" /\ u.text.s # <<>>) =>
               rec[i].last_msg = AttachedFileName(u)

\* one target read an entry with a text and a file name and got the text,
\* the other read an entry with an empty text and got the file name
C17_Witness ==
  /\ Len(config) = 2
  /\ \E i, j \in 1..2 :
       /\ rec[i].read = "message" /\ rec[j].read = "message"
       /\ LatestEntry(i).text.k = "str" /\ LatestEntry(i).text.s # <<>>
       /\ LatestEntry(i).file_name.k = "str"
       /\ rec[i].last_msg = LatestEntry(i).text.s
       /\ rec[i].last_msg # LatestEntry(i).file_name.s
       /\ LatestEntry(j).text = StrVal(<<>>)
       /\ rec[j].last_msg = LatestEntry(j).file_name.s
       /\ rec[j].last_msg # <<>>

\* this step runs the change detector (or the extraction before it) for
\* the target at idx
DetectorStep ==
  /\ pc \in {"scrape", "job"}
  /\ idx <= Len(config)
  /\ obs[idx].k = "none"
  /\ obs'[idx].k # "none"

\* C18: the step that runs the change detector for a target leaves the
\* cache entries of all other names as they were and adds no other name,
\* and it notifies exactly when the target's own extraction succeeded, the
\* target has a cached value and that value differs from the new one.
C18_CacheIsolation ==
  [][DetectorStep =>
       LET name == config[idx].name
       IN  /\ DOMAIN files \subseteq DOMAIN files'
           /\ DOMAIN files' \subseteq DOMAIN files \cup {name}
           /\ \A n \in DOMAIN files : n # name => files'[n] = files[n]
           /\ (Len(sent') = Len(sent) + 1) <=>
                /\ obs'[idx].k = "ok"
                /\ name \in DOMAIN files
                /\ files[name] # obs'[idx].got
           /\ Len(sent') \in {Len(sent), Len(sent) + 1}
           /\ Len(sent') = Len(sent) + 1 =>
                /\ sent'[Len(sent')].target = name
                /\ sent'[Len(sent')].by = "detector"]_vars

\* in a scheduled pass one target's cached value was replaced and notified
\* while the other target's differing entry stayed in the cache
C18_Witness ==
  /\ Len(config) = 2
  /\ \E i, j \in 1..2 :
       /\ i # j
       /\ config[i].name # config[j].name
       /\ obs[i].done /\ obs[i].old.k = "str" /\ obs[i].old.s # obs[i].got
       /\ files[config[i].name] = obs[i].got
       /\ SentFor(config[i].name, "detector") # <<>>
       /\ config[j].name \in DOMAIN files
       /\ files[config[j].name] # files[config[i].name]
       /\ files[config[j].name] # obs[i].old.s

\* every configured target has an entry in self.files
AllCached == \A i \in 1..Len(config) : config[i].name \in DOMAIN files

\* C19: once a scrape pass has returned normally, and so whenever
\* check_for_file_changes runs, every configured target has an entry in
\* the cache; the lookup self.files[config.name] never raises KeyError.
C19_ReconcilerFindsEveryTarget ==
  /\ passes.scrape >= 1 => AllCached
  /\ pc = "reconcile" => AllCached
  /\ \A i \in 1..Len(config) : rec[i].k # "none" => config[i].name \in DOMAIN files
  /\ exc # "KeyError"

\* check_for_file_changes has looked up both targets of a two-target list
C19_Witness ==
  /\ pc = "reconcile"
  /\ Len(config) = 2
  /\ idx > Len(config)
  /\ \A i \in 1..2 : /\ rec[i].k = "ok"
                     /\ rec[i].file_name = LastSegment(files[config[i].name])

=============================================================================
